---- MODULE Spec2Model ----
(***************************************************************************)
(* Model of src/panels/HelloWorldPanel.ts: the singleton webview panel     *)
(* controller (render / dispose / reloadWebview / updateWebview) and the   *)
(* listener that routes webview messages to the store.                     *)
(*                                                                         *)
(* Every instance of HelloWorldPanel ever constructed has an index         *)
(* 1..MaxPanels; index 0 stands for `undefined`.                           *)
(***************************************************************************)
EXTENDS Integers, Sequences, FiniteSets, TLC

\* ----------------------------------------------------------------- bounds
MaxPanels == 3      \* instances constructed in one run
MaxMsgs == 2        \* inbound messages handled in one run

Panels == 1..MaxPanels
Payloads == {1, 2}

\* ------------------------------------------------------- message protocol
\* TodoScope.user / TodoScope.workspace, plus a value that is neither.
Scopes == {"user", "workspace", "other"}
\* MessageActionsFromWebview, in the order of the switch, plus an unknown tag.
KnownTypes == {"addTodo", "deleteTodo", "toggleTodo", "editTodo", "reorderTodo"}
Types == KnownTypes \cup {"unknown"}
\* Every recognized message with every payload, and every unrecognized
\* combination of scope and type (the listener never reads their payload).
Messages ==
    [scope : {"user", "workspace"}, type : KnownTypes, payload : Payloads]
    \cup [scope : {"user", "workspace"}, type : {"unknown"}, payload : {1}]
    \cup [scope : {"other"}, type : Types, payload : {1}]
Msg(scope, type, payload) == [scope |-> scope, type |-> type, payload |-> payload]
\* The messages the webview sends in the runs that exercise the whole panel
\* life cycle: one action of each scope (idle when repeated) and both kinds
\* of unrecognized message.
SampleMessages ==
    {Msg("user", "addTodo", 1), Msg("workspace", "addTodo", 2),
     Msg("other", "addTodo", 1), Msg("workspace", "unknown", 1)}

\* The two disposables the constructor registers in this._disposables.
OnDidDispose == "onDidDispose"
OnDidReceiveMessage == "onDidReceiveMessage"

Undefined == 0

VARIABLES
    currentPanel,   \* HelloWorldPanel.currentPanel: 0 or the index of an instance
    panel,          \* panel[i]: this._panel of instance i: [status, active]
    disposables,    \* disposables[i]: this._disposables of instance i
    disposeCount,   \* disposeCount[i][d]: times disposable d of instance i was disposed
    posted,         \* posted[i]: messages posted to the webview of instance i
    store,          \* this._store.getState()
    dispatched,     \* actions passed to this._store.dispatch, in order
    received,       \* messages the listener was invoked with, in order
    errors,         \* console.error lines, in order
    lastOp          \* the branch taken last: "create", "close" or "reveal" of a
                    \* render, "dropped" for a message no listener took, else "other"

vars == <<currentPanel, panel, disposables, disposeCount, posted, store,
          dispatched, received, errors, lastOp>>

Range(s) == {s[k] : k \in 1..Len(s)}
Last(s) == s[Len(s)]

\* ------------------------------------------------------------------ store
\* The action sets imported from ../todo/store (line 11), by name.
userActions == "userActions"
workspaceActions == "workspaceActions"

\* storeActions.<type>(payload): the action an action creator builds.
ActionCreator(storeActions, type, payload) ==
    [creators |-> storeActions, type |-> type, payload |-> payload]

\* The store slice an action set acts on.
SliceOf(storeActions) ==
    IF storeActions = userActions THEN "user" ELSE "workspace"

EmptySlice == [items |-> <<>>, done |-> {}, edited |-> {}]
InitialState == [user |-> EmptySlice, workspace |-> EmptySlice]

Without(s, x) == SelectSeq(s, LAMBDA y : y # x)

\* The slice reducer of the external store, on todo ids.
SliceReducer(slice, type, id) ==
    LET present == id \in Range(slice.items) IN
    CASE type = "addTodo" ->
            IF present THEN slice
            ELSE [slice EXCEPT !.items = Append(@, id)]
      [] type = "deleteTodo" ->
            [items |-> Without(slice.items, id),
             done |-> slice.done \ {id},
             edited |-> slice.edited \ {id}]
      [] type = "toggleTodo" ->
            IF ~present THEN slice
            ELSE IF id \in slice.done
                 THEN [slice EXCEPT !.done = @ \ {id}]
                 ELSE [slice EXCEPT !.done = @ \cup {id}]
      [] type = "editTodo" ->
            IF present THEN [slice EXCEPT !.edited = @ \cup {id}] ELSE slice
      [] type = "reorderTodo" ->
            IF present THEN [slice EXCEPT !.items = <<id>> \o Without(@, id)]
            ELSE slice
      [] OTHER -> slice

\* The root reducer: an action changes the slice of its own action set only.
Reducer(state, action) ==
    LET k == SliceOf(action.creators) IN
    [state EXCEPT ![k] = SliceReducer(@, action.type, action.payload)]

\* ------------------------------------------------- messages to the webview
\* messagesToWebview.reloadWebview(currentState)
ReloadWebviewMsg(state) == [type |-> "reloadWebview", payload |-> state]
\* messagesToWebview.syncData(newSliceState)
SyncDataMsg(slice) == [type |-> "syncData", payload |-> slice]

\* Webview.postMessage: the message is appended to what the webview of
\* instance i was sent, unless that webview is already disposed.
PostMessage(pan, post, i, msg) ==
    IF pan[i].status = "open" THEN [post EXCEPT ![i] = Append(@, msg)] ELSE post

\* A reloadWebview that sends the initial state, not the current one.
reloadWebviewInitial(pan, post, st, i) ==
    PostMessage(pan, post, i, [type |-> "reloadWebview",
        payload |-> [user |-> [items |-> <<>>, done |-> {}, edited |-> {}],
                     workspace |-> [items |-> <<>>, done |-> {}, edited |-> {}]]])

\* reloadWebview(): posts the whole store state to the instance's webview.
reloadWebview(pan, post, st, i) ==
    PostMessage(pan, post, i, ReloadWebviewMsg(st))

\* updateWebview(newSliceState): posts a slice state to the instance's webview.
updateWebview(pan, post, i, newSliceState) ==
    PostMessage(pan, post, i, SyncDataMsg(newSliceState))

\* The store subscriber of the extension: after a dispatch it hands the new
\* state of the slice acted on to HelloWorldPanel.currentPanel, if there is one.
Subscriber(cur, pan, post, st, action) ==
    IF cur = Undefined THEN post
    ELSE updateWebview(pan, post, cur,
            [scope |-> SliceOf(action.creators), slice |-> st[SliceOf(action.creators)]])

\* ---------------------------------------------------------------- dispose
\* The mutable fields of the class and of the host's panels that a dispose
\* touches, as a record h: [cur, pan, disp, cnt], with calls, the number of
\* times dispose() was entered while the handler ran.
NoPanel == [status |-> "none", active |-> FALSE]
OpenPanel == [status |-> "open", active |-> TRUE]
ClosedPanel == [status |-> "disposed", active |-> FALSE]

\* An `if` where dispose() has its `while`: one disposable is popped.
PopOneDisposable(h, i) ==
    IF Len(h.disp[i]) = 0 THEN h
    ELSE [h EXCEPT !.disp[i] = SubSeq(@, 1, Len(@) - 1),
                   !.cnt[i][Last(h.disp[i])] = @ + 1]

\* A loop that disposes every disposable and leaves the list as it was.
DisposeAllKeepList(h, i) ==
    [h EXCEPT !.cnt[i] = [d \in DOMAIN @ |->
                            IF d \in Range(h.disp[i]) THEN @[d] + 1 ELSE @[d]]]

RECURSIVE PopDisposables(_, _)
\* while (this._disposables.length) { this._disposables.pop()?.dispose() }
PopDisposables(h, i) ==
    IF Len(h.disp[i]) = 0 THEN h
    ELSE LET d == Last(h.disp[i])
             h1 == [h EXCEPT !.disp[i] = SubSeq(@, 1, Len(@) - 1),
                             !.cnt[i][d] = @ + 1]
         IN PopDisposables(h1, i)

RECURSIVE dispose(_, _), PanelDispose(_, _)
\* WebviewPanel.dispose() of the host: a no-op on a disposed panel; otherwise
\* the panel is marked disposed and its onDidDispose event fires, which runs
\* the handler the constructor registered, () => this.dispose(), while that
\* subscription is still registered.
PanelDispose(h, i) ==
    IF h.pan[i].status # "open" THEN h
    ELSE LET h1 == [h EXCEPT !.pan[i] = ClosedPanel]
         IN IF OnDidDispose \in Range(h1.disp[i]) THEN dispose(h1, i) ELSE h1

\* HelloWorldPanel.dispose()
dispose(h, i) ==
    LET h1 == [h EXCEPT !.cur = Undefined, !.calls = @ + 1]
        h2 == PanelDispose(h1, i)
    IN PopDisposables(h2, i)

Fields == [cur |-> currentPanel, pan |-> panel, disp |-> disposables,
           cnt |-> disposeCount, calls |-> 0]

SetFields(h) ==
    /\ currentPanel' = h.cur
    /\ panel' = h.pan
    /\ disposables' = h.disp
    /\ disposeCount' = h.cnt

\* ----------------------------------------------------------------- render
Constructed == {i \in Panels : panel[i].status # "none"}
Open == {i \in Panels : panel[i].status = "open"}

\* A constructor without its closing reloadWebview() call.
ConstructNoReload(i) ==
    /\ panel' = [panel EXCEPT ![i] = OpenPanel]
    /\ disposables' = [disposables EXCEPT ![i] = <<OnDidDispose, OnDidReceiveMessage>>]
    /\ currentPanel' = i
    /\ UNCHANGED <<disposeCount, posted>>

\* window.createWebviewPanel followed by the private constructor: the two
\* listeners are registered in this._disposables, then reloadWebview().
Construct(i) ==
    /\ panel' = [panel EXCEPT ![i] = OpenPanel]
    /\ disposables' = [disposables EXCEPT ![i] = <<OnDidDispose, OnDidReceiveMessage>>]
    /\ posted' = reloadWebview(panel', posted, store, i)
    /\ currentPanel' = i
    /\ UNCHANGED disposeCount

\* A render without the dispose branch: an existing panel is always revealed.
renderRevealOnly ==
    /\ IF currentPanel # Undefined
       THEN /\ lastOp' = "reveal"
            /\ UNCHANGED <<currentPanel, panel, disposables, disposeCount, posted>>
       ELSE /\ Cardinality(Constructed) < MaxPanels
            /\ Construct(Cardinality(Constructed) + 1)
            /\ lastOp' = "create"
    /\ UNCHANGED <<store, dispatched, received, errors>>

\* HelloWorldPanel.render(context, store)
render ==
    /\ IF currentPanel # Undefined
       THEN IF panel[currentPanel].active
            THEN /\ SetFields(PanelDispose(Fields, currentPanel))
                 /\ lastOp' = "close"
                 /\ UNCHANGED posted
            ELSE /\ lastOp' = "reveal"
                 /\ UNCHANGED <<currentPanel, panel, disposables, disposeCount, posted>>
       ELSE /\ Cardinality(Constructed) < MaxPanels
            /\ Construct(Cardinality(Constructed) + 1)
            /\ lastOp' = "create"
    /\ UNCHANGED <<store, dispatched, received, errors>>

\* The public dispose() called on instance i by a holder of a reference to it.
DisposeCall(i) ==
    /\ i \in Constructed
    /\ SetFields(dispose(Fields, i))
    /\ lastOp' = "other"
    /\ UNCHANGED <<posted, store, dispatched, received, errors>>

\* The user closes the panel: the host disposes the WebviewPanel.
UserClose(i) ==
    /\ i \in Open
    /\ SetFields(PanelDispose(Fields, i))
    /\ lastOp' = "other"
    /\ UNCHANGED <<posted, store, dispatched, received, errors>>

\* The host reports a new view state of an open panel (focus or tab change),
\* which is what render reads as _panel.active.
ViewStateChange(i) ==
    /\ i \in Open
    /\ panel' = [panel EXCEPT ![i].active = ~@]
    /\ lastOp' = "other"
    /\ UNCHANGED <<currentPanel, disposables, disposeCount, posted, store,
                   dispatched, received, errors>>

\* --------------------------------------------------------------- listener
NoActions == "none"

\* A scope check with the two action sets exchanged.
SelectActionsSwapped(scope) ==
    IF scope = "user" THEN workspaceActions
    ELSE IF scope = "workspace" THEN userActions
    ELSE NoActions

\* Lines 182-190: the action set the scope of a message selects.
SelectActions(scope) ==
    IF scope = "user" THEN userActions
    ELSE IF scope = "workspace" THEN workspaceActions
    ELSE NoActions

Dispatches(action) == [actions |-> <<action>>, errors |-> <<>>]
Logs(text) == [actions |-> <<>>, errors |-> <<text>>]

\* A switch whose toggleTodo case has lost its break.
SwitchTypeFallThrough(storeActions, message) ==
    IF message.type = "toggleTodo"
    THEN [actions |-> <<ActionCreator(storeActions, "toggleTodo", message.payload),
                        ActionCreator(storeActions, "editTodo", message.payload)>>,
          errors |-> <<>>]
    ELSE IF message.type \in KnownTypes
         THEN Dispatches(ActionCreator(storeActions, message.type, message.payload))
         ELSE Logs("Action not found")

\* Lines 191-219: switch (message.type), what it dispatches and logs.
SwitchType(storeActions, message) ==
    CASE message.type = "addTodo" ->
            Dispatches(ActionCreator(storeActions, "addTodo", message.payload))
      [] message.type = "deleteTodo" ->
            Dispatches(ActionCreator(storeActions, "deleteTodo", message.payload))
      [] message.type = "toggleTodo" ->
            Dispatches(ActionCreator(storeActions, "toggleTodo", message.payload))
      [] message.type = "editTodo" ->
            Dispatches(ActionCreator(storeActions, "editTodo", message.payload))
      [] message.type = "reorderTodo" ->
            Dispatches(ActionCreator(storeActions, "reorderTodo", message.payload))
      [] OTHER -> Logs("Action not found")

\* A listener that looks at the type before the scope.
ListenerTypeFirst(message) ==
    IF message.type \notin KnownTypes THEN Logs("Action not found")
    ELSE IF SelectActions(message.scope) = NoActions
         THEN Logs("Action scope not found")
         ELSE SwitchType(SelectActions(message.scope), message)

\* The callback given to webview.onDidReceiveMessage: what one message makes
\* it dispatch and log, [actions, errors], in the order of the calls.
Listener(message) ==
    LET storeActions == SelectActions(message.scope) IN
    IF storeActions = NoActions
    THEN Logs("Action scope not found")
    ELSE SwitchType(storeActions, message)

RECURSIVE Dispatch(_, _)
\* this._store.dispatch(action) for each action of a sequence: the reducer
\* runs, then the subscriber, on w: [store, dispatched, posted].
Dispatch(w, actions) ==
    IF Len(actions) = 0 THEN w
    ELSE LET a == Head(actions)
             st == Reducer(w.store, a)
             w1 == [store |-> st,
                    dispatched |-> Append(w.dispatched, a),
                    posted |-> Subscriber(currentPanel, panel, w.posted, st, a)]
         IN Dispatch(w1, Tail(actions))

\* The webview of instance i sends a message. The listener runs if its
\* subscription is still registered.
ReceiveMessage(i, message) ==
    /\ i \in Constructed
    /\ Len(received) < MaxMsgs
    /\ IF OnDidReceiveMessage \in Range(disposables[i])
       THEN LET eff == Listener(message)
                w == Dispatch([store |-> store, dispatched |-> dispatched,
                               posted |-> posted], eff.actions)
            IN /\ store' = w.store
               /\ dispatched' = w.dispatched
               /\ posted' = w.posted
               /\ errors' = errors \o eff.errors
               /\ received' = Append(received, [panel |-> i, msg |-> message])
               /\ lastOp' = "other"
       ELSE /\ lastOp' = "dropped"
            /\ UNCHANGED <<store, dispatched, posted, errors, received>>
    /\ UNCHANGED <<currentPanel, panel, disposables, disposeCount>>

\* ---------------------------------------------------------- specification
Init ==
    /\ currentPanel = Undefined
    /\ panel = [i \in Panels |-> NoPanel]
    /\ disposables = [i \in Panels |-> <<>>]
    /\ disposeCount = [i \in Panels |->
                         [d \in {OnDidDispose, OnDidReceiveMessage} |-> 0]]
    /\ posted = [i \in Panels |-> <<>>]
    /\ store = InitialState
    /\ dispatched = <<>>
    /\ received = <<>>
    /\ errors = <<>>
    /\ lastOp = "other"

Next ==
    \/ render
    \/ \E i \in Panels : DisposeCall(i)
    \/ \E i \in Panels : UserClose(i)
    \/ \E i \in Panels : ViewStateChange(i)
    \/ \E i \in Panels, message \in SampleMessages : ReceiveMessage(i, message)

Spec == Init /\ [][Next]_vars

\* The runs that exercise the listener on every message of the protocol, with
\* the panel opened and closed through render alone.
NextDispatch ==
    \/ render
    \/ \E i \in Panels, message \in Messages : ReceiveMessage(i, message)

SpecDispatch == Init /\ [][NextDispatch]_vars

TypeOK ==
    /\ currentPanel \in {Undefined} \cup Panels
    /\ \A i \in Panels : panel[i].status \in {"none", "open", "disposed"}
    /\ Len(received) <= MaxMsgs

\* ======================================================================
\* Properties
\* ======================================================================
Recognized(m) == m.scope \in {"user", "workspace"} /\ m.type \in KnownTypes

\* The action the protocol asks for a recognized message.
ExpectedAction(m) ==
    [creators |-> IF m.scope = "user" THEN userActions ELSE workspaceActions,
     type |-> m.type,
     payload |-> m.payload]

\* A step in which the listener of some panel handled a message.
Handled == Len(received') = Len(received) + 1

\* A step in which render created a panel / any step that closed panel i.
Created(i) == panel[i].status = "none" /\ panel'[i].status = "open"
Closed(i) == panel[i].status = "open" /\ panel'[i].status = "disposed"

\* C1: single panel: at most one non-disposed panel exists at any time, and
\* render creates a panel only when no non-disposed panel exists.
C1_SinglePanel ==
    /\ [](Cardinality(Open) <= 1)
    /\ [][\A i \in Panels : Created(i) => Open = {}]_vars

\* C2: scoped dispatch: a recognized message makes the listener dispatch
\* exactly one action, built by the creator named by the message type from
\* userActions for scope user and workspaceActions for scope workspace, with
\* the payload of the message.
C2_ScopedDispatch ==
    [][(Handled /\ Recognized(Last(received').msg))
          => dispatched' = Append(dispatched, ExpectedAction(Last(received').msg))]_vars

C2_Witness ==
    /\ Len(received) = 2
    /\ received[1].msg = Msg("workspace", "reorderTodo", 2)
    /\ received[2].msg = Msg("user", "editTodo", 1)
    /\ dispatched = <<ActionCreator(workspaceActions, "reorderTodo", 2),
                      ActionCreator(userActions, "editTodo", 1)>>

\* C3: an unrecognized message is only logged: no dispatch, store,
\* currentPanel and webview untouched, exactly one console error, the scope
\* checked before the type, and the listener stays registered.
C3_UnrecognizedOnlyLogged ==
    [][(Handled /\ ~Recognized(Last(received').msg))
          => /\ UNCHANGED <<dispatched, store, currentPanel, posted, panel,
                            disposables, disposeCount>>
             /\ errors' = Append(errors,
                    IF Last(received').msg.scope \in {"user", "workspace"}
                    THEN "Action not found" ELSE "Action scope not found")]_vars

C3_Witness ==
    /\ Len(received) = 2
    /\ received[1].msg = Msg("other", "unknown", 1)
    /\ received[2].msg = Msg("user", "addTodo", 2)
    /\ received[1].panel = received[2].panel
    /\ errors = <<"Action scope not found">>
    /\ Len(dispatched) = 1

C5_RenderShowsExisting ==
    [][render =>
          /\ Open # {} => /\ Open' = Open
                          /\ currentPanel' \in Open
                          /\ currentPanel' = currentPanel
          /\ (\E i \in Panels : Created(i)) => Open = {}]_vars

\* C6: clean-up on close: a closed panel has its webview panel disposed, both
\* its disposables disposed and its disposables list empty; the step that
\* closes it leaves currentPanel undefined; and no listener handles, and
\* nothing is dispatched for, a message delivered to a closed panel.
C6_CleanUpOnClose ==
    /\ [](\A i \in Panels :
            panel[i].status = "disposed"
            => /\ disposables[i] = <<>>
               /\ disposeCount[i][OnDidDispose] >= 1
               /\ disposeCount[i][OnDidReceiveMessage] >= 1)
    /\ [][/\ \A i \in Panels : Closed(i) => currentPanel' = Undefined
          /\ Handled => panel[Last(received').panel].status = "open"
          /\ dispatched' # dispatched => Handled
          /\ store' # store => Handled]_vars

C6_Witness ==
    /\ lastOp = "dropped"
    /\ currentPanel = Undefined
    /\ panel[1].status = "disposed"
    /\ disposables[1] = <<>>
    /\ disposeCount[1][OnDidReceiveMessage] = 1
    /\ dispatched = <<>>

RECURSIVE ExpectedActions(_)
\* The received messages with the unrecognized ones removed, as actions.
ExpectedActions(msgs) ==
    IF msgs = <<>> THEN <<>>
    ELSE (IF Recognized(Head(msgs).msg)
          THEN <<ExpectedAction(Head(msgs).msg)>> ELSE <<>>)
         \o ExpectedActions(Tail(msgs))

\* C8: order preservation: the actions dispatched are the received messages
\* with the unrecognized ones removed, in arrival order, none repeated or lost.
C8_OrderPreserved == dispatched = ExpectedActions(received)

C8_Witness ==
    /\ Len(received) = 2
    /\ received[1].msg = Msg("user", "toggleTodo", 1)
    /\ received[2].msg = Msg("workspace", "deleteTodo", 2)
    /\ Len(dispatched) = 2
    /\ dispatched[1].type = "toggleTodo"
    /\ dispatched[2].type = "deleteTodo"

\* C9: initial reload: every panel created was sent one reloadWebview, as the
\* first message, with the store state of the moment of creation; everything
\* sent after it is syncData, and a reveal sends nothing.
C9_InitialReload ==
    /\ [](\A i \in Panels :
            IF i \in Constructed
            THEN /\ Len(posted[i]) >= 1
                 /\ posted[i][1].type = "reloadWebview"
                 /\ \A k \in 2..Len(posted[i]) : posted[i][k].type = "syncData"
            ELSE posted[i] = <<>>)
    /\ [][/\ \A i \in Panels : Created(i) => posted'[i] = <<ReloadWebviewMsg(store)>>
          /\ lastOp' = "reveal" => posted' = posted]_vars

C9_Witness ==
    /\ lastOp = "reveal"
    /\ currentPanel = 2
    /\ Len(posted[2]) = 2
    /\ posted[2][1].type = "reloadWebview"
    /\ posted[2][1].payload # InitialState
    /\ posted[2][2].type = "syncData"

RECURSIVE StateAfter(_, _)
\* The store state after a sequence of actions, from a given state.
StateAfter(state, actions) ==
    IF actions = <<>> THEN state
    ELSE StateAfter(Reducer(state, Head(actions)), Tail(actions))

\* C10: the panel life cycle never mutates the store: only a step in which a
\* listener handled a message dispatches or changes the store state, so the
\* reloadWebview sent to a newly created panel carries the effect of every
\* action dispatched before.
C10_LifecycleKeepsStore ==
    /\ [](store = StateAfter(InitialState, dispatched))
    /\ [][/\ ~Handled => UNCHANGED <<store, dispatched>>
          /\ \A i \in Panels :
               Created(i) => posted'[i][1].payload = StateAfter(InitialState, dispatched)]_vars

C10_Witness ==
    /\ panel[1].status = "disposed"
    /\ panel[2].status = "open"
    /\ Len(received) >= 1
    /\ received[1].panel = 1
    /\ Len(posted[1]) = 2
    /\ store # InitialState
    /\ posted[2] = <<ReloadWebviewMsg(store)>>

\* C11: currentPanel tracks the live panel exactly: between handlers it is
\* defined if and only if a non-disposed panel exists, and it is then that
\* panel; a dispose() on an instance that is no longer current leaves it so.
C11_CurrentTracksLive ==
    /\ (currentPanel # Undefined) <=> (Open # {})
    /\ currentPanel # Undefined => Open = {currentPanel}

\* What a handler leaves behind, without the count of dispose() entries.
Result(h) == [cur |-> h.cur, pan |-> h.pan, disp |-> h.disp, cnt |-> h.cnt]

\* C12: dispose terminates and is idempotent under re-entry: closing an open
\* panel enters dispose() once through the host (user close, render) and twice
\* through a direct call, a repeated call enters it once; each way leaves the
\* same state, with the panel disposed, the list empty and every registered
\* disposable disposed exactly once, and a further dispose() changes nothing.
C12_DisposeReentry ==
    \A i \in Constructed :
        LET once == dispose(Fields, i)
            twice == dispose(once, i)
            host == PanelDispose(Fields, i)
        IN /\ \A d \in DOMAIN disposeCount[i] :
                 /\ disposeCount[i][d] = (IF d \in Range(disposables[i]) THEN 0 ELSE 1)
                 /\ once.cnt[i][d] = 1
           /\ once.pan[i].status = "disposed"
           /\ once.disp[i] = <<>>
           /\ once.calls = (IF i \in Open THEN 2 ELSE 1)
           /\ twice.calls = once.calls + 1
           /\ Result(twice) = Result(once)
           /\ i \in Open => host.calls = 1 /\ Result(host) = Result(once)
           /\ i \notin Open => Result(host) = Result(Fields)

C12_Witness ==
    /\ panel[1].status = "disposed"
    /\ panel[2].status = "open"
    /\ currentPanel = Undefined
    /\ disposables[1] = <<>>
    /\ disposeCount[1][OnDidDispose] = 1
    /\ disposeCount[1][OnDidReceiveMessage] = 1
    /\ dispose(Fields, 2).calls = 2

====
